---- MODULE Spec2Model ----
(***************************************************************************)
(* A model of frontend/src/metabase/static-viz/components/XYChart/         *)
(* XYChart.tsx: the XYChart render function, stage by stage, and of the    *)
(* option accessors of the Aggregation clause class that follows it.       *)
(***************************************************************************)
EXTENDS Integers, Sequences, FiniteSets, TLC

(* ----------------------------------------------------------------------- *)
(* Bounds of the model                                                     *)
(* ----------------------------------------------------------------------- *)
MaxSeries == 2
MaxDepth == 2

(* ----------------------------------------------------------------------- *)
(* Values                                                                  *)
(* ----------------------------------------------------------------------- *)
\* JavaScript's null / undefined: an absent value.
Null == [isNull |-> TRUE]

Max2(a, b) == IF a >= b THEN a ELSE b

Min2(a, b) == IF a <= b THEN a ELSE b

RECURSIVE SeqsUpTo(_, _)
SeqsUpTo(S, n) ==
  IF n = 0 THEN {<<>>}
  ELSE LET shorter == SeqsUpTo(S, n - 1)
       IN shorter \cup {Append(s, x) : s \in {t \in shorter : Len(t) = n - 1}, x \in S}

RECURSIVE SumSeq(_)
SumSeq(s) == IF s = <<>> THEN 0 ELSE Head(s) + SumSeq(Tail(s))

RECURSIVE FlatMapData(_)
FlatMapData(ss) == IF ss = <<>> THEN <<>> ELSE Head(ss).data \o FlatMapData(Tail(ss))

(* ----------------------------------------------------------------------- *)
(* formatNumber (metabase/static-viz/lib/numbers): number -> string        *)
(* ----------------------------------------------------------------------- *)
DigitChar(d) == <<"0", "1", "2", "3", "4", "5", "6", "7", "8", "9">>[d + 1]

RECURSIVE Digits(_)
Digits(n) == IF n < 10 THEN <<DigitChar(n)>> ELSE Append(Digits(n \div 10), DigitChar(n % 10))

Pad3(n) == <<DigitChar(n \div 100), DigitChar((n \div 10) % 10), DigitChar(n % 10)>>

RECURSIVE Grouped(_)
Grouped(n) == IF n < 1000 THEN Digits(n) ELSE Grouped(n \div 1000) \o <<",">> \o Pad3(n % 1000)

Abbreviated(n) ==
  IF n >= 1000000 THEN Append(Digits(n \div 1000000), "M")
  ELSE IF n >= 1000 THEN Append(Digits(n \div 1000), "k")
  ELSE Digits(n)

HasKey(format, key) == format # Null /\ key \in DOMAIN format

\* An absent format means the default options: full notation, no prefix.
formatNumber(value, format) ==
  LET prefix == IF HasKey(format, "prefix") THEN <<format["prefix"]>> ELSE <<>>
      body == IF HasKey(format, "compact") /\ format["compact"]
              THEN Abbreviated(value) ELSE Grouped(value)
  IN prefix \o body

(* ----------------------------------------------------------------------- *)
(* maybeAssoc and icepick's assoc                                          *)
(* ----------------------------------------------------------------------- *)
\* icepick assoc: a copy of the collection with key set; the argument is a
\* value and is left as it was.
assoc(collection, key, value) ==
  [k \in DOMAIN collection \cup {key} |-> IF k = key THEN value ELSE collection[k]]

maybeAssocAlways(collection, key, value) ==
  IF collection = Null THEN [k \in {key} |-> value] ELSE assoc(collection, key, value)

maybeAssoc(collection, key, value) ==
  IF collection = Null THEN collection ELSE assoc(collection, key, value)

(* ----------------------------------------------------------------------- *)
(* IEEE-754 double arithmetic of getAvgLength: sum / lengths.length        *)
(* ----------------------------------------------------------------------- *)
\* Width of a double's significand.
MantissaBits == 53

FracBits == MantissaBits - 1

NaN == [isNaN |-> TRUE]

RECURSIVE BitLength(_)
BitLength(n) == IF n = 0 THEN 0 ELSE 1 + BitLength(n \div 2)

\* The first k bits of r / n (0 <= r < n) after the binary point, and the
\* remainder left after them.
RECURSIVE LongDivision(_, _, _, _)
LongDivision(r, n, k, acc) ==
  IF k = 0 THEN [bits |-> acc, rem |-> r]
  ELSE LET r2 == 2 * r
       IN IF r2 >= n THEN LongDivision(r2 - n, n, k - 1, Append(acc, 1))
          ELSE LongDivision(r2, n, k - 1, Append(acc, 0))

\* bits + 1 in the last place; carry is 1 when the increment leaves the bits.
RECURSIVE Increment(_)
Increment(bits) ==
  IF bits = <<>> THEN [bits |-> <<>>, carry |-> 1]
  ELSE LET n == Len(bits)
           last == bits[n]
           front == SubSeq(bits, 1, n - 1)
       IN IF last = 0 THEN [bits |-> Append(front, 1), carry |-> 0]
          ELSE LET inc == Increment(front)
               IN [bits |-> Append(inc.bits, 0), carry |-> inc.carry]

Zeros(k) == [i \in 1..k |-> 0]

\* a / n for integers a >= n >= 1, rounded to nearest, ties to even, as a
\* fixed-point number: integer part and FracBits bits after the point.
DivideToNearest(a, n) ==
  LET ip == a \div n
      kept == MantissaBits - BitLength(ip)
      q == LongDivision(a % n, n, kept, <<>>)
      lastBit == IF kept = 0 THEN ip % 2 ELSE q.bits[kept]
      roundUp == 2 * q.rem > n \/ (2 * q.rem = n /\ lastBit = 1)
      inc == IF roundUp THEN Increment(q.bits) ELSE [bits |-> q.bits, carry |-> 0]
  IN [isNaN |-> FALSE, int |-> ip + inc.carry, frac |-> inc.bits \o Zeros(FracBits - kept)]

\* a / n for integers a >= 0, n >= 0 with a >= n when n > 0; 0 / 0 is NaN.
Divide(a, n) == IF n = 0 THEN NaN ELSE DivideToNearest(a, n)

\* x - 3: exact for the fixed-point numbers above (x >= 1), NaN for NaN.
MinusThreshold(x, t) == IF x.isNaN THEN NaN ELSE [x EXCEPT !.int = x.int - t]

RECURSIVE BitsLess(_, _)
BitsLess(a, b) ==
  IF a = <<>> THEN FALSE
  ELSE IF Head(a) # Head(b) THEN Head(a) < Head(b)
  ELSE BitsLess(Tail(a), Tail(b))

\* x < y on doubles: false when either side is NaN.
Less(x, y) ==
  /\ ~x.isNaN
  /\ ~y.isNaN
  /\ \/ x.int < y.int
     \/ x.int = y.int /\ BitsLess(x.frac, y.frac)

(* ----------------------------------------------------------------------- *)
(* Text metrics and layout constants                                       *)
(* ----------------------------------------------------------------------- *)
\* metabase/static-viz/components/XYChart/constants
CHART_PADDING == 1

LABEL_PADDING == 1

\* The text-metrics collaborator: pixel width of a text at a font size.
measureText(text, fontSize) == Len(text) * fontSize

\* JavaScript truthiness of an optional property: an accessor, a number.
HasProperty(object, key) == key \in DOMAIN object

TruthyNumber(object, key) == key \in DOMAIN object /\ object[key] # 0

(* ----------------------------------------------------------------------- *)
(* Series Normalizer: sortSeries, calculateStackedItems                    *)
(* ----------------------------------------------------------------------- *)
\* Stable insertion of a datum [x, y] into data sorted by x.
RECURSIVE InsertByX(_, _)
InsertByX(datum, sorted) ==
  IF sorted = <<>> THEN <<datum>>
  ELSE IF datum[1] < Head(sorted)[1] THEN <<datum>> \o sorted
  ELSE <<Head(sorted)>> \o InsertByX(datum, Tail(sorted))

RECURSIVE SortByX(_)
SortByX(data) ==
  IF data = <<>> THEN <<>>
  ELSE InsertByX(data[Len(data)], SortByX(SubSeq(data, 1, Len(data) - 1)))

sortSeries(series, xType) ==
  IF xType = "ordinal" THEN series
  ELSE [i \in 1..Len(series) |-> [series[i] EXCEPT !.data = SortByX(series[i].data)]]

\* Sum of the y values at x in the data.
RECURSIVE SumAtX(_, _)
SumAtX(data, x) ==
  IF data = <<>> THEN 0
  ELSE (IF Head(data)[1] = x THEN Head(data)[2] ELSE 0) + SumAtX(Tail(data), x)

RECURSIVE BaselineAt(_, _, _)
BaselineAt(series, i, x) ==
  IF i = 0 THEN 0 ELSE BaselineAt(series, i - 1, x) + SumAtX(series[i].data, x)

\* Each series gains stackedData: [x, top, baseline] for each of its data.
calculateStackedItems(series) ==
  [i \in 1..Len(series) |->
     [type |-> series[i].type, axis |-> series[i].axis, data |-> series[i].data,
      stackedData |->
        [j \in 1..Len(series[i].data) |->
           LET x == series[i].data[j][1]
               y == series[i].data[j][2]
               base == BaselineAt(series, i - 1, x)
           IN <<x, base + y, base>>]]]

normalizeAlwaysStacked(sorted, stacking) == calculateStackedItems(sorted)

\* XYChart lines 58-60: stacking is applied only when settings.stacking is "stack".
normalize(sorted, stacking) ==
  IF stacking = "stack" THEN calculateStackedItems(sorted) ELSE sorted

(* ----------------------------------------------------------------------- *)
(* Domain Calculator: calculateYDomains                                    *)
(* ----------------------------------------------------------------------- *)
OnAxis(series, side) == SelectSeq(series, LAMBDA s : s.axis = side)

OfType(series, type) == SelectSeq(series, LAMBDA s : s.type = type)

\* The plotted Y values of a series: the stacked tops when it is stacked.
PlottedYs(s) ==
  IF "stackedData" \in DOMAIN s
  THEN {s.stackedData[j][2] : j \in 1..Len(s.stackedData)}
  ELSE {s.data[j][2] : j \in 1..Len(s.data)}

SetMax(S) == CHOOSE m \in S : \A v \in S : v <= m

SetMin(S) == CHOOSE m \in S : \A v \in S : m <= v

\* The domain of one side: absent when no series uses the side; zero is
\* included for bar and area series; the goal (a set: empty when there is
\* none) only when withGoal.
calculateYDomain(sideSeries, goalValue, withGoal) ==
  IF sideSeries = <<>> THEN Null
  ELSE LET ys == UNION {PlottedYs(sideSeries[i]) : i \in 1..Len(sideSeries)}
           zero == IF \E i \in 1..Len(sideSeries) : sideSeries[i].type \in {"bar", "area"}
                   THEN {0} ELSE {}
           goal == IF withGoal THEN goalValue ELSE {}
           values == ys \cup zero \cup goal
       IN IF values = {} THEN <<0, 0>> ELSE <<SetMin(values), SetMax(values)>>

calculateYDomains(series, goalValue) ==
  LET left == OnAxis(series, "left")
      right == OnAxis(series, "right")
  IN [left |-> calculateYDomain(left, goalValue, TRUE),
      right |-> calculateYDomain(right, goalValue, left = <<>>)]

(* ----------------------------------------------------------------------- *)
(* Layout Solver: tick metrics, calculateMargin, calculateBounds           *)
(* ----------------------------------------------------------------------- *)
YTickWidth(format, fontSize, domain) ==
  IF domain = Null THEN 0
  ELSE Max2(measureText(formatNumber(domain[1], format), fontSize),
            measureText(formatNumber(domain[2], format), fontSize))

getYTickWidths(format, fontSize, leftDomain, rightDomain) ==
  [left |-> YTickWidth(format, fontSize, leftDomain),
   right |-> YTickWidth(format, fontSize, rightDomain)]

XValuesOf(series) ==
  LET data == FlatMapData(series) IN {data[j][1] : j \in 1..Len(data)}

getXTicksDimensions(series, xSettings, fontSize) ==
  LET widths == {measureText(Digits(x), fontSize) : x \in XValuesOf(series)}
      maxTextWidth == IF widths = {} THEN 0 ELSE SetMax(widths)
  IN [width |-> maxTextWidth, height |-> fontSize, maxTextWidth |-> maxTextWidth]

LabelExtent(label, fontSize) == IF label = Null THEN 0 ELSE fontSize + LABEL_PADDING

calculateMargin(yTickLeft, yTickRight, xTickHeight, xTickWidth, labels, fontSize, hasTopAllowance) ==
  [top |-> CHART_PADDING + (IF hasTopAllowance THEN fontSize ELSE 0),
   bottom |-> CHART_PADDING + xTickHeight + LabelExtent(labels.bottom, fontSize),
   left |-> CHART_PADDING + yTickLeft + LabelExtent(labels.left, fontSize),
   right |-> CHART_PADDING + yTickRight + LabelExtent(labels.right, fontSize)]

calculateBounds(margin, width, height) ==
  LET innerWidth == width - margin.left - margin.right
      innerHeight == height - margin.top - margin.bottom
  IN [xMin |-> margin.left, xMax |-> margin.left + innerWidth,
      yMin |-> margin.top + innerHeight,
      innerHeight |-> innerHeight, innerWidth |-> innerWidth]

(* ----------------------------------------------------------------------- *)
(* Scale Factory: createXScale, createYScales                              *)
(* ----------------------------------------------------------------------- *)
\* Ordinal: bands of uniform width, a bar anchor at the band start and a
\* line anchor at its centre. Continuous: both anchors coincide and the
\* scale has no bandwidth property.
createXScale(series, range, xType) ==
  LET xs == XValuesOf(series)
  IN IF xType = "ordinal"
     THEN [type |-> "band", domain |-> xs, range |-> range,
           bandwidth |-> (range[2] - range[1]) \div Max2(1, Cardinality(xs)),
           barAccessor |-> "bandStart", lineAccessor |-> "bandCentre"]
     ELSE [type |-> xType,
           domain |-> IF xs = {} THEN <<0, 0>> ELSE <<SetMin(xs), SetMax(xs)>>,
           range |-> range, barAccessor |-> "point", lineAccessor |-> "point"]

createYScale(range, yType, domain) ==
  IF domain = Null THEN Null ELSE [type |-> yType, domain |-> domain, range |-> range]

createYScales(range, yType, leftDomain, rightDomain) ==
  [yScaleLeft |-> createYScale(range, yType, leftDomain),
   yScaleRight |-> createYScale(range, yType, rightDomain)]

\* Applying a linear Y scale; a one-point domain maps to the middle of the range.
ApplyScale(scale, v) ==
  LET d0 == scale.domain[1]
      d1 == scale.domain[2]
      r0 == scale.range[1]
      r1 == scale.range[2]
  IN IF d0 = d1 THEN (r0 + r1) \div 2
     ELSE r0 + ((v - d0) * (r1 - r0)) \div (d1 - d0)

(* ----------------------------------------------------------------------- *)
(* Legend and Value-Label Step Planner                                     *)
(* ----------------------------------------------------------------------- *)
\* Up to two columns balanced by item count.
getLegendColumns(series) ==
  LET n == Len(series)
      half == (n + 1) \div 2
  IN [leftColumn |-> SubSeq(series, 1, half), rightColumn |-> SubSeq(series, half + 1, n)]

\* The least step between drawn value labels at which neighbours do not
\* overlap; 1 for a group of at most one point.
getValueStep(group, valueFormatter, valueProps, innerWidth) ==
  LET data == FlatMapData(group)
      widths == {measureText(formatNumber(data[j][2], valueFormatter.format), valueProps.fontSize)
                   : j \in 1..Len(data)}
      lens == {Len(group[i].data) : i \in 1..Len(group)}
      n == IF lens = {} THEN 0 ELSE SetMax(lens)
      w == IF widths = {} THEN 0 ELSE SetMax(widths)
  IN IF n <= 1 THEN 1
     ELSE IF innerWidth <= 0 THEN n
     ELSE Min2(n, Max2(1, (w * (n - 1) + innerWidth - 1) \div innerWidth))

(* ----------------------------------------------------------------------- *)
(* XYChart: derived values (lines 102-162)                                 *)
(* ----------------------------------------------------------------------- *)
defaultYScaleRightFirst(yScaleLeft, yScaleRight) ==
  IF yScaleRight # Null THEN yScaleRight ELSE yScaleLeft

\* yScaleLeft || yScaleRight
defaultYScale(yScaleLeft, yScaleRight) ==
  IF yScaleLeft # Null THEN yScaleLeft ELSE yScaleRight

legendHeightSum(leftColumn, rightColumn, lineHeight) ==
  (Len(leftColumn) + Len(rightColumn)) * lineHeight

legendHeight(leftColumn, rightColumn, lineHeight) ==
  Max2(Len(leftColumn), Len(rightColumn)) * lineHeight

\* The lengths of the formatted Y values of all series, in series order.
FormattedLengths(series, format, compact) ==
  LET data == FlatMapData(series)
  IN [j \in 1..Len(data) |-> Len(formatNumber(data[j][2], maybeAssoc(format, "compact", compact)))]

getAvgLength(series, format, compact) ==
  LET lengths == FormattedLengths(series, format, compact)
  IN Divide(SumSeq(lengths), Len(lengths))

\* The threshold of line 160.
Threshold == 3

compact(series, format) ==
  Less(getAvgLength(series, format, TRUE),
       MinusThreshold(getAvgLength(series, format, FALSE), Threshold))

\* The closure of lines 161-162, as the format it applies to a value.
valueFormatter(format, isCompact) == [format |-> maybeAssoc(format, "compact", isCompact)]

(* ----------------------------------------------------------------------- *)
(* XYChart: the returned scene (lines 183-314)                             *)
(* ----------------------------------------------------------------------- *)
GridRowsAlways(scale, innerWidth) == [scale |-> scale, width |-> innerWidth]

GridRows(scale, innerWidth) ==
  IF scale # Null THEN [scale |-> scale, width |-> innerWidth] ELSE Null

BarSeries(xScale, group, yScales, formatter, step) ==
  IF HasProperty(xScale, "barAccessor") /\ TruthyNumber(xScale, "bandwidth")
  THEN [series |-> group, yScaleLeft |-> yScales.yScaleLeft,
        yScaleRight |-> yScales.yScaleRight, xAccessor |-> xScale.barAccessor,
        bandwidth |-> xScale.bandwidth, valueFormatter |-> formatter, valueStep |-> step]
  ELSE Null

AreaSeries(xScale, group, yScales, formatter, step, stacking) ==
  [series |-> group, yScaleLeft |-> yScales.yScaleLeft,
   yScaleRight |-> yScales.yScaleRight, xAccessor |-> xScale.lineAccessor,
   areStacked |-> (stacking = "stack"), valueFormatter |-> formatter, valueStep |-> step]

LineSeries(xScale, group, yScales, formatter, step) ==
  [series |-> group, yScaleLeft |-> yScales.yScaleLeft,
   yScaleRight |-> yScales.yScaleRight, xAccessor |-> xScale.lineAccessor,
   valueFormatter |-> formatter, valueStep |-> step]

\* Calling an absent default scale is a TypeError (line 235).
GoalLine(goal, scale, innerWidth, color) ==
  IF goal = Null THEN Null
  ELSE IF scale = Null THEN [throws |-> "TypeError"]
  ELSE [label |-> goal.label, x1 |-> 0, x2 |-> innerWidth,
        y |-> ApplyScale(scale, goal.value), color |-> color]

\* The format the Y axis tick formatters apply (lines 253 and 270).
tickFormatOfValues(settings, formatter) == [format |-> formatter.format]

tickFormat(settings, formatter) == [format |-> settings.y.format]

AxisLeft(yScales, label, labelOffset, top, left, ticks) ==
  IF yScales.yScaleLeft # Null
  THEN [scale |-> yScales.yScaleLeft, label |-> label, labelOffset |-> labelOffset,
        top |-> top, left |-> left, tickFormat |-> ticks]
  ELSE Null

AxisRightOnLeftScale(yScales, label, labelOffset, top, left, ticks) ==
  IF yScales.yScaleLeft # Null
  THEN [scale |-> yScales.yScaleRight, label |-> label, labelOffset |-> labelOffset,
        top |-> top, left |-> left, tickFormat |-> ticks]
  ELSE Null

AxisRight(yScales, label, labelOffset, top, left, ticks) ==
  IF yScales.yScaleRight # Null
  THEN [scale |-> yScales.yScaleRight, label |-> label, labelOffset |-> labelOffset,
        top |-> top, left |-> left, tickFormat |-> ticks]
  ELSE Null

Legend(leftColumn, rightColumn, height, width, lineHeight) ==
  [leftColumn |-> leftColumn, rightColumn |-> rightColumn, padding |-> CHART_PADDING,
   top |-> height, width |-> width, lineHeight |-> lineHeight]

(* ----------------------------------------------------------------------- *)
(* Aggregation: the option accessors (lines 565-586)                       *)
(* ----------------------------------------------------------------------- *)
\* An Aggregation is an MBQL clause (an array) with its index and query.
NewAggregation(mbql, index, query) == [clause |-> mbql, index |-> index, query |-> query]

hasOptions(this) == this.clause[1] = "aggregation-options"

\* this[2] || {}
options(this) ==
  IF hasOptions(this)
  THEN (IF this.clause[3] = Null THEN [k \in {} |-> Null] ELSE this.clause[3])
  ELSE [k \in {} |-> Null]

aggregation(this) ==
  IF hasOptions(this) THEN NewAggregation(this.clause[2], this.index, this.query) ELSE this

(* ----------------------------------------------------------------------- *)
(* State                                                                   *)
(* ----------------------------------------------------------------------- *)
VARIABLES
  props,      \* width, height, series, settings, style: the render's arguments
  pc,         \* the stage of XYChart that runs next
  series,     \* the hydrated series (lines 56-60)
  yDomains,   \* line 62
  metrics,    \* yTickWidths, xTicksDimensions, label offsets, margin (lines 63-86)
  bounds,     \* xMin, xMax, yMin, innerHeight, innerWidth (lines 88-92)
  scales,     \* xScale, yScaleLeft, yScaleRight (lines 94-100)
  derived,    \* lines/areas/bars, defaultYScale, legend, compact (lines 102-162)
  steps,      \* bars/areas/lines value steps (lines 164-181)
  result,     \* the returned scene, or the error thrown
  agg,        \* an Aggregation clause
  unwrapped,  \* the result of agg.aggregation(), when called
  opts        \* the result of agg.options(), when called

chartVars == <<props, pc, series, yDomains, metrics, bounds, scales, derived, steps, result>>

aggVars == <<agg, unwrapped, opts>>

vars == <<props, pc, series, yDomains, metrics, bounds, scales, derived, steps, result,
          agg, unwrapped, opts>>

(* ----------------------------------------------------------------------- *)
(* Inputs                                                                  *)
(* ----------------------------------------------------------------------- *)
Types == {"bar", "line", "area"}

SeriesOf(axes, dataChoices) == [type : Types, axis : axes, data : dataChoices]

SeriesLists(S) == SeqsUpTo(S, MaxSeries)

\* Data as [x, y] pairs: none, one point, two points out of x order.
LayoutData == {<<>>, <<<<2, 5>>>>, <<<<2, 1000>>, <<1, 5>>>>}

\* Values whose compact form is shorter by 0, 3, 3 and 7 characters.
CompactData ==
  {<<>>, <<<<1, 5>>>>, <<<<1, 1000>>>>, <<<<1, 10000>>, <<2, 10000>>>>, <<<<1, 1000000>>>>}

Goals == {Null, [value |-> 2000, label |-> "Target"]}

Formats == {Null, [prefix |-> "$"], [prefix |-> "$", compact |-> TRUE]}

NoLabels == [left |-> Null, right |-> Null, bottom |-> Null]

Style == [fontFamily |-> "Lato", goalColor |-> "grey",
          axes |-> [ticks |-> [fontSize |-> 1], labels |-> [fontSize |-> 1]],
          legend |-> [lineHeight |-> 4, fontSize |-> 1],
          value |-> [fontSize |-> 1]]

Settings(xType, stacking, goal, format) ==
  [x |-> [type |-> xType, format |-> Null, tick_display |-> Null],
   y |-> [type |-> "linear", format |-> format],
   stacking |-> stacking, goal |-> goal, show_values |-> TRUE, labels |-> NoLabels]

RECURSIVE Clauses(_)
Clauses(depth) ==
  IF depth = 0 THEN {<<"count">>, <<"sum", 7>>, <<"metric", 1>>}
  ELSE LET inner == Clauses(depth - 1)
       IN inner \cup {<<"aggregation-options", c, o>> :
                        c \in inner, o \in {Null, [k \in {"display-name"} |-> "Total"]}}

(* ----------------------------------------------------------------------- *)
(* Init                                                                    *)
(* ----------------------------------------------------------------------- *)
NoAggregation == NewAggregation(<<"count">>, 0, "query")

InitChart(lists, settingsSet, widths) ==
  /\ props \in [width : widths, height : {30}, series : lists,
                settings : settingsSet, style : {Style}]
  /\ pc = "sort"
  /\ series = Null
  /\ yDomains = Null
  /\ metrics = Null
  /\ bounds = Null
  /\ scales = Null
  /\ derived = Null
  /\ steps = Null
  /\ result = Null
  /\ agg = NoAggregation
  /\ unwrapped = Null
  /\ opts = Null

LayoutSettings ==
  {Settings(xType, stacking, goal, [prefix |-> "$"]) :
     xType \in {"ordinal", "linear"}, stacking \in {"none", "stack"},
     goal \in Goals}

Init == InitChart(SeriesLists(SeriesOf({"left", "right"}, LayoutData)), LayoutSettings, {4, 40})

CompactSettings == {Settings("ordinal", "none", Null, format) : format \in Formats}

InitCompact == InitChart(SeriesLists(SeriesOf({"left"}, CompactData)), CompactSettings, {40})

InitAgg ==
  /\ props = Null
  /\ pc = "idle"
  /\ series = Null
  /\ yDomains = Null
  /\ metrics = Null
  /\ bounds = Null
  /\ scales = Null
  /\ derived = Null
  /\ steps = Null
  /\ result = Null
  /\ agg \in {NewAggregation(c, i, "query") : c \in Clauses(MaxDepth), i \in {0, 1}}
  /\ unwrapped = Null
  /\ opts = Null

(* ----------------------------------------------------------------------- *)
(* XYChart, stage by stage                                                 *)
(* ----------------------------------------------------------------------- *)
\* Line 56: sortSeries.
SortStage ==
  /\ pc = "sort"
  /\ series' = sortSeries(props.series, props.settings.x.type)
  /\ pc' = "stack"
  /\ UNCHANGED <<props, yDomains, metrics, bounds, scales, derived, steps, result>>
  /\ UNCHANGED aggVars

\* Lines 58-60: stacking.
StackStage ==
  /\ pc = "stack"
  /\ series' = normalize(series, props.settings.stacking)
  /\ pc' = "domains"
  /\ UNCHANGED <<props, yDomains, metrics, bounds, scales, derived, steps, result>>
  /\ UNCHANGED aggVars

\* Line 62: calculateYDomains(series, settings.goal?.value).
DomainStage ==
  /\ pc = "domains"
  /\ yDomains' = calculateYDomains(series,
                   IF props.settings.goal = Null THEN {} ELSE {props.settings.goal.value})
  /\ pc' = "margin"
  /\ UNCHANGED <<props, series, metrics, bounds, scales, derived, steps, result>>
  /\ UNCHANGED aggVars

\* Lines 63-86: tick metrics, label offsets and margin.
MarginStage ==
  /\ pc = "margin"
  /\ LET fontSize == props.style.axes.ticks.fontSize
         yTickWidths == getYTickWidths(props.settings.y.format, fontSize,
                                       yDomains.left, yDomains.right)
         xTicksDimensions == getXTicksDimensions(series, props.settings.x, fontSize)
     IN metrics' =
          [yTickWidths |-> yTickWidths,
           xTicksDimensions |-> xTicksDimensions,
           yLabelOffsetLeft |-> yTickWidths.left + LABEL_PADDING,
           yLabelOffsetRight |-> LABEL_PADDING,
           margin |-> calculateMargin(yTickWidths.left, yTickWidths.right,
                        xTicksDimensions.height, xTicksDimensions.width,
                        props.settings.labels, fontSize,
                        props.settings.goal # Null \/ props.settings.show_values)]
  /\ pc' = "bounds"
  /\ UNCHANGED <<props, series, yDomains, bounds, scales, derived, steps, result>>
  /\ UNCHANGED aggVars

\* Lines 88-92: calculateBounds.
BoundsStage ==
  /\ pc = "bounds"
  /\ bounds' = calculateBounds(metrics.margin, props.width, props.height)
  /\ pc' = "scales"
  /\ UNCHANGED <<props, series, yDomains, metrics, scales, derived, steps, result>>
  /\ UNCHANGED aggVars

\* Lines 94-100: createXScale, createYScales.
ScaleStage ==
  /\ pc = "scales"
  /\ LET y == createYScales(<<bounds.innerHeight, 0>>, props.settings.y.type,
                            yDomains.left, yDomains.right)
     IN scales' = [xScale |-> createXScale(series, <<0, bounds.innerWidth>>,
                                           props.settings.x.type),
                   yScaleLeft |-> y.yScaleLeft, yScaleRight |-> y.yScaleRight]
  /\ pc' = "derive"
  /\ UNCHANGED <<props, series, yDomains, metrics, bounds, derived, steps, result>>
  /\ UNCHANGED aggVars

\* Lines 102-162: the series groups, the default Y scale, the legend and
\* the compact decision with its value formatter.
DeriveStage ==
  /\ pc = "derive"
  /\ LET columns == getLegendColumns(series)
         isCompact == compact(series, props.settings.y.format)
     IN derived' =
          [lines |-> OfType(series, "line"),
           areas |-> OfType(series, "area"),
           bars |-> OfType(series, "bar"),
           defaultYScale |-> defaultYScale(scales.yScaleLeft, scales.yScaleRight),
           leftColumn |-> columns.leftColumn,
           rightColumn |-> columns.rightColumn,
           legendHeight |-> legendHeight(columns.leftColumn, columns.rightColumn,
                                         props.style.legend.lineHeight),
           valueProps |-> [fontSize |-> props.style.value.fontSize],
           compact |-> isCompact,
           valueFormatter |-> valueFormatter(props.settings.y.format, isCompact)]
  /\ pc' = "steps"
  /\ UNCHANGED <<props, series, yDomains, metrics, bounds, scales, steps, result>>
  /\ UNCHANGED aggVars

\* Lines 164-181: the three getValueStep calls.
StepStage ==
  /\ pc = "steps"
  /\ steps' =
       [bars |-> getValueStep(derived.bars, derived.valueFormatter,
                              derived.valueProps, bounds.innerWidth),
        areas |-> getValueStep(derived.areas, derived.valueFormatter,
                               derived.valueProps, bounds.innerWidth),
        lines |-> getValueStep(derived.lines, derived.valueFormatter,
                               derived.valueProps, bounds.innerWidth)]
  /\ pc' = "emit"
  /\ UNCHANGED <<props, series, yDomains, metrics, bounds, scales, derived, result>>
  /\ UNCHANGED aggVars

\* Lines 183-314: the returned element tree; evaluating it throws when the
\* goal line calls an absent default scale.
Scene ==
  LET yScales == [yScaleLeft |-> scales.yScaleLeft, yScaleRight |-> scales.yScaleRight]
      ticks == tickFormat(props.settings, derived.valueFormatter)
      goalLine == GoalLine(props.settings.goal, derived.defaultYScale, bounds.innerWidth,
                           props.style.goalColor)
  IN IF goalLine # Null /\ "throws" \in DOMAIN goalLine
     THEN [kind |-> "error", name |-> goalLine.throws]
     ELSE [kind |-> "scene",
           width |-> props.width,
           height |-> props.height + derived.legendHeight,
           top |-> metrics.margin.top,
           left |-> bounds.xMin,
           grid |-> GridRows(derived.defaultYScale, bounds.innerWidth),
           barSeries |-> BarSeries(scales.xScale, derived.bars, yScales,
                                   derived.valueFormatter, steps.bars),
           areaSeries |-> AreaSeries(scales.xScale, derived.areas, yScales,
                                     derived.valueFormatter, steps.areas,
                                     props.settings.stacking),
           lineSeries |-> LineSeries(scales.xScale, derived.lines, yScales,
                                     derived.valueFormatter, steps.lines),
           goalLine |-> goalLine,
           axisLeft |-> AxisLeft(yScales, props.settings.labels.left,
                                 metrics.yLabelOffsetLeft, metrics.margin.top,
                                 bounds.xMin, ticks),
           axisRight |-> AxisRight(yScales, props.settings.labels.right,
                                   metrics.yLabelOffsetRight, metrics.margin.top,
                                   bounds.xMax + metrics.yTickWidths.right, ticks),
           axisBottom |-> [scale |-> scales.xScale, top |-> bounds.yMin,
                           left |-> bounds.xMin],
           legend |-> Legend(derived.leftColumn, derived.rightColumn, props.height,
                             props.width, props.style.legend.lineHeight)]

EmitStage ==
  /\ pc = "emit"
  /\ result' = Scene
  /\ pc' = "done"
  /\ UNCHANGED <<props, series, yDomains, metrics, bounds, scales, derived, steps>>
  /\ UNCHANGED aggVars

(* ----------------------------------------------------------------------- *)
(* Aggregation calls                                                       *)
(* ----------------------------------------------------------------------- *)
CallAggregation ==
  /\ pc = "idle"
  /\ unwrapped = Null
  /\ unwrapped' = aggregation(agg)
  /\ UNCHANGED <<agg, opts>>
  /\ UNCHANGED chartVars

CallOptions ==
  /\ pc = "idle"
  /\ opts = Null
  /\ opts' = [value |-> options(agg)]
  /\ UNCHANGED <<agg, unwrapped>>
  /\ UNCHANGED chartVars

\* Calling aggregation() on the result of an earlier aggregation() call.
CallAggregationAgain ==
  /\ pc = "idle"
  /\ unwrapped # Null
  /\ unwrapped # aggregation(unwrapped)
  /\ unwrapped' = aggregation(unwrapped)
  /\ UNCHANGED <<agg, opts>>
  /\ UNCHANGED chartVars

(* ----------------------------------------------------------------------- *)
(* Specifications                                                          *)
(* ----------------------------------------------------------------------- *)
Next ==
  \/ SortStage
  \/ StackStage
  \/ DomainStage
  \/ MarginStage
  \/ BoundsStage
  \/ ScaleStage
  \/ DeriveStage
  \/ StepStage
  \/ EmitStage

NextAgg ==
  \/ CallAggregation
  \/ CallOptions
  \/ CallAggregationAgain

\* Renders of charts with series on both axes, goals and stacking.
Spec == Init /\ [][Next]_vars

\* Renders of charts whose values differ in how much compact notation shortens them.
SpecCompact == InitCompact /\ [][Next]_vars

\* Calls of the Aggregation option accessors.
SpecAgg == InitAgg /\ [][NextAgg]_vars

(* ----------------------------------------------------------------------- *)
(* Claims                                                                  *)
(* ----------------------------------------------------------------------- *)
Done == pc = "done"

IsScene == pc = "done" /\ result.kind = "scene"

YFormat == props.settings.y.format

\* The means of getAvgLength compared as exact rationals: sum(compact) / n <
\* sum(full) / n - 3, with n > 0 data points.
ExactMeanShorter ==
  LET compactLengths == FormattedLengths(series, YFormat, TRUE)
      fullLengths == FormattedLengths(series, YFormat, FALSE)
      n == Len(fullLengths)
  IN n > 0 /\ SumSeq(compactLengths) < SumSeq(fullLengths) - Threshold * n

\* C1: compact formatting is selected if and only if the mean formatted
\* length of all Y values under compact mode is smaller than the mean under
\* full mode minus 3, and that one boolean is the one the bar, area and line
\* series' value formatter uses.
C1_CompactIffMeanShorterByMoreThanThree ==
  IsScene =>
    /\ derived.compact <=> ExactMeanShorter
    /\ result.barSeries # Null =>
         result.barSeries.valueFormatter.format = maybeAssoc(YFormat, "compact", derived.compact)
    /\ \A f \in {result.areaSeries.valueFormatter, result.lineSeries.valueFormatter} :
         f.format = maybeAssoc(YFormat, "compact", derived.compact)

\* C2: the default Y scale is the left scale when it exists and the right
\* one otherwise; grid rows and goal line both use it, and the goal line
\* runs from x = 0 to innerWidth at y = defaultScale(goal.value).
C2_GridAndGoalUseDefaultScale ==
  IsScene =>
    LET d == IF scales.yScaleLeft # Null THEN scales.yScaleLeft ELSE scales.yScaleRight
    IN /\ derived.defaultYScale = d
       /\ result.grid = IF d # Null THEN [scale |-> d, width |-> bounds.innerWidth] ELSE Null
       /\ props.settings.goal # Null =>
            /\ result.goalLine.x1 = 0
            /\ result.goalLine.x2 = bounds.innerWidth
            /\ result.goalLine.y = ApplyScale(d, props.settings.goal.value)

C2_Witness ==
  /\ IsScene
  /\ scales.yScaleLeft # Null
  /\ scales.yScaleRight # Null
  /\ props.settings.goal # Null
  /\ result.grid # Null
  /\ ApplyScale(scales.yScaleLeft, props.settings.goal.value)
       # ApplyScale(scales.yScaleRight, props.settings.goal.value)

C4_NoPartialScene ==
  IsScene =>
    /\ result.barSeries # Null \/ OfType(series, "bar") = <<>>
    /\ result.barSeries # Null => result.barSeries.series = OfType(series, "bar")
    /\ result.areaSeries.series = OfType(series, "area")
    /\ result.lineSeries.series = OfType(series, "line")
    /\ props.settings.goal # Null => result.goalLine # Null
    /\ scales.yScaleLeft # Null => result.axisLeft # Null
    /\ scales.yScaleRight # Null => result.axisRight # Null

\* C5: a Y axis is emitted for a side exactly when that side's scale exists;
\* when all series use one side the scene has neither a scale nor an axis for
\* the other side; the grid is emitted exactly when some side has a scale.
C5_AxisIffScale ==
  IsScene =>
    LET n == Len(props.series)
        allOn(side) == n > 0 /\ \A i \in 1..n : props.series[i].axis = side
    IN /\ result.axisLeft # Null <=> scales.yScaleLeft # Null
       /\ result.axisRight # Null <=> scales.yScaleRight # Null
       /\ result.axisLeft # Null => result.axisLeft.scale = scales.yScaleLeft
       /\ result.axisRight # Null => result.axisRight.scale = scales.yScaleRight
       /\ allOn("left") => (scales.yScaleRight = Null /\ result.axisRight = Null)
       /\ allOn("right") => (scales.yScaleLeft = Null /\ result.axisLeft = Null)
       /\ result.grid # Null <=> (scales.yScaleLeft # Null \/ scales.yScaleRight # Null)

C5_Witness ==
  /\ IsScene
  /\ Len(props.series) = MaxSeries
  /\ \A i \in 1..Len(props.series) : props.series[i].axis = "left"
  /\ result.axisLeft # Null
  /\ result.axisRight = Null
  /\ result.grid # Null

Stages == <<"sort", "stack", "domains", "margin", "bounds", "scales", "derive", "steps",
            "emit", "done">>

StageIndex(stage) == CHOOSE i \in 1..Len(Stages) : Stages[i] = stage

\* The stage outputs in stage order: an output is absent until its stage ran.
OutputsFollowStages ==
  LET at == StageIndex(pc)
  IN /\ at <= 3 <=> yDomains = Null
     /\ at <= 4 <=> metrics = Null
     /\ at <= 5 <=> bounds = Null
     /\ at <= 6 <=> scales = Null
     /\ at <= 7 <=> derived = Null
     /\ at <= 8 <=> steps = Null
     /\ at <= 9 <=> result = Null

\* One step of a render: the next stage in the fixed order, stacking applied
\* exactly when settings.stacking is "stack", and no output of an earlier
\* stage changed.
StageStep ==
  LET at == StageIndex(pc)
  IN /\ at < Len(Stages)
     /\ pc' = Stages[at + 1]
     /\ props' = props
     /\ OutputsFollowStages
     /\ OutputsFollowStages'
     /\ pc = "sort" => Len(series') = Len(props.series)
     /\ pc = "stack" =>
          /\ props.settings.stacking # "stack" => series' = series
          /\ props.settings.stacking = "stack" =>
               \A i \in 1..Len(series') : "stackedData" \in DOMAIN series'[i]
     /\ at > 2 => series' = series
     /\ at > 3 => yDomains' = yDomains
     /\ at > 4 => metrics' = metrics
     /\ at > 5 => bounds' = bounds
     /\ at > 6 => scales' = scales
     /\ at > 7 => derived' = derived
     /\ at > 8 => steps' = steps

\* C6: the stages of a render run in the fixed order sort, stacking (only
\* when settings.stacking is "stack"; otherwise the sorted series pass
\* through unchanged), Y domains, tick metrics and margin, bounds, scales,
\* value steps, emission; no stage's output exists before the stage ran and
\* none is changed once a later stage has started.
C6_StagesRunInOrder == [][StageStep]_vars

C6_Witness ==
  /\ Done
  /\ props.settings.stacking = "none"
  /\ props.settings.x.type = "linear"
  /\ series = sortSeries(props.series, "linear")
  /\ series # props.series
  /\ result # Null

\* C7: the canvas height is the requested height plus max(items in the left
\* legend column, items in the right one) * lineHeight; the width is the
\* requested width; the legend sits at the requested height; with an empty
\* legend the canvas height is the requested height.
C7_CanvasHeightIncludesLegend ==
  IsScene =>
    LET legend == result.legend
        rows == Max2(Len(legend.leftColumn), Len(legend.rightColumn))
    IN /\ result.height = props.height + rows * props.style.legend.lineHeight
       /\ result.width = props.width
       /\ legend.top = props.height
       /\ (legend.leftColumn = <<>> /\ legend.rightColumn = <<>>) =>
            result.height = props.height

C7_Witness ==
  /\ IsScene
  /\ result.legend.leftColumn # <<>>
  /\ result.legend.rightColumn # <<>>
  /\ result.height > props.height

\* C8: aggregation() returns the aggregation without an "aggregation-options"
\* clause: its result never has options, also when the wrapped clause is
\* itself an "aggregation-options" clause, and it is the aggregation itself
\* when that has no options wrapper.
C8_AggregationHasNoOptions ==
  unwrapped # Null =>
    /\ ~hasOptions(unwrapped)
    /\ ~hasOptions(agg) => unwrapped = agg

\* The settings' Y format is absent, or the value formatter's format is a
\* copy of it with "compact" set to the decision.
FormatCopied ==
  LET format == derived.valueFormatter.format
  IN IF YFormat = Null THEN format = Null
     ELSE /\ DOMAIN format = DOMAIN YFormat \cup {"compact"}
          /\ format["compact"] = derived.compact
          /\ \A k \in DOMAIN YFormat \ {"compact"} : format[k] = YFormat[k]

TickFormatsReadSettings ==
  /\ result.axisLeft # Null => result.axisLeft.tickFormat.format = YFormat
  /\ result.axisRight # Null => result.axisRight.tickFormat.format = YFormat

\* C9: maybeAssoc propagates absence and never mutates its argument: an
\* absent format gives an absent result, a present one gives a copy with
\* "compact" set; settings.y.format stays as the caller passed it and is what
\* the axis tick formatters read.
C9_MaybeAssocPropagatesAbsence ==
  /\ [](derived # Null => FormatCopied)
  /\ [](IsScene => TickFormatsReadSettings)
  /\ [][props' = props]_vars

C9_Witness ==
  /\ IsScene
  /\ YFormat = [prefix |-> "$"]
  /\ derived.compact
  /\ result.axisLeft # Null
  /\ result.axisLeft.tickFormat.format # derived.valueFormatter.format

\* C10: compact mode is not selected when settings.y.format is absent or
\* when the series have no data points, and the render computes the decision
\* without raising an error.
C10_NoCompactInDegenerateCases ==
  (YFormat = Null \/ FlatMapData(props.series) = <<>>) =>
    /\ derived # Null => ~derived.compact
    /\ Done => result.kind = "scene"

C10_Witness ==
  /\ IsScene
  /\ YFormat = Null
  /\ \E i \in 1..Len(series) : \E j \in 1..Len(series[i].data) :
       series[i].data[j][2] = 1000000
  /\ ~derived.compact

====
